---- MODULE Spec2Model ----
(***************************************************************************)
(* The grafana-auth relation interface library, in its two revisions that  *)
(* the repository holds:                                                   *)
(*   revision 1  lib/charms/grafana_auth_interface/v0 (GrafanaAuthProvides,*)
(*               GrafanaAuthRequires), keys grafana_auth / grafana_url;    *)
(*   revision 3  tests/integration/auth_provider_tester/lib/... (AuthProvider, *)
(*               GrafanaAuthProxyProvider, AuthRequirer), keys auth / urls.*)
(* A provider application and a requirer application, each with several    *)
(* units of which one is leader, share relations; every relation carries   *)
(* one databag per application.  The host delivers one event at a time and *)
(* every handler runs to completion: each handler is one action.           *)
(***************************************************************************)
EXTENDS Integers, Sequences, FiniteSets, TLC

(***************************************************************************)
(* Python values.  A value is a record tagged with its Python type; the    *)
(* tag ty decides the type of the field v.                                 *)
(***************************************************************************)
Str(s) == [ty |-> "str", v |-> s]
Bool(b) == [ty |-> "bool", v |-> b]
Int_(n) == [ty |-> "int", v |-> n]
List(seq) == [ty |-> "list", v |-> seq]
Dict(f) == [ty |-> "dict", v |-> f]
None == [ty |-> "none", v |-> "None"]

\* d.get(k), None when k is absent
DictGet(d, k) == IF k \in DOMAIN d.v THEN d.v[k] ELSE None

\* Python truthiness: `not x` is ~Truthy(x)
Truthy(x) ==
    CASE x.ty = "none" -> FALSE
      [] x.ty = "bool" -> x.v
      [] x.ty = "int" -> x.v # 0
      [] x.ty = "str" -> x.v # ""
      [] x.ty = "list" -> DOMAIN x.v # {}
      [] x.ty = "dict" -> DOMAIN x.v # {}

(***************************************************************************)
(* JSON text.  A databag value is a string: either the serialisation of a  *)
(* JSON document (fmt "json", doc the document's syntax tree, every node   *)
(* tagged with its JSON type) or some other sequence of characters (fmt    *)
(* "raw"), the empty string included.                                      *)
(***************************************************************************)
RawText(s) == [fmt |-> "raw", doc |-> [ty |-> "chars", v |-> s]]

EmptyText == RawText("")

RECURSIVE json_encode(_)
json_encode(x) ==
    CASE x.ty = "none" -> [ty |-> "literal", v |-> "null"]
      [] x.ty = "bool" -> [ty |-> "literal", v |-> IF x.v THEN "true" ELSE "false"]
      [] x.ty = "int" -> [ty |-> "number", v |-> x.v]
      [] x.ty = "str" -> [ty |-> "string", v |-> x.v]
      [] x.ty = "list" -> [ty |-> "array", v |-> [i \in DOMAIN x.v |-> json_encode(x.v[i])]]
      [] x.ty = "dict" -> [ty |-> "object", v |-> [k \in DOMAIN x.v |-> json_encode(x.v[k])]]

\* json.dumps
json_dumps(x) == [fmt |-> "json", doc |-> json_encode(x)]

RECURSIVE json_decode(_)
json_decode(j) ==
    CASE j.ty = "literal" ->
            IF j.v = "null" THEN None ELSE Bool(j.v = "true")
      [] j.ty = "number" -> Int_(j.v)
      [] j.ty = "string" -> Str(j.v)
      [] j.ty = "array" -> List([i \in DOMAIN j.v |-> json_decode(j.v[i])])
      [] j.ty = "object" -> Dict([k \in DOMAIN j.v |-> json_decode(j.v[k])])

\* json.loads raises json.decoder.JSONDecodeError on a text that is no JSON document
JSONDecodeError(text) == text.fmt # "json"

\* json.loads, where it does not raise
json_loads(text) == json_decode(text.doc)

(***************************************************************************)
(* jsonschema.validate, for the keywords the library's schemas use.  A     *)
(* schema is a record of keywords; a keyword the validator does not know   *)
(* is ignored, and additionalProperties: True constrains nothing.          *)
(***************************************************************************)
IsType(x, t) ==
    CASE t = "object" -> x.ty = "dict"
      [] t = "array" -> x.ty = "list"
      [] t = "string" -> x.ty = "str"
      [] t = "boolean" -> x.ty = "bool"
      [] t = "integer" -> x.ty = "int"
      [] OTHER -> FALSE

RECURSIVE validate(_, _)
validate(instance, schema) ==
    /\ "type" \in DOMAIN schema => IsType(instance, schema.type)
    /\ ("required" \in DOMAIN schema /\ instance.ty = "dict")
          => schema.required \subseteq DOMAIN instance.v
    /\ ("properties" \in DOMAIN schema /\ instance.ty = "dict")
          => \A k \in (DOMAIN schema.properties) \cap (DOMAIN instance.v) :
                validate(instance.v[k], schema.properties[k])
    /\ ("items" \in DOMAIN schema /\ instance.ty = "list")
          => \A i \in DOMAIN instance.v : validate(instance.v[i], schema.items)
    /\ "anyOf" \in DOMAIN schema
          => \E i \in DOMAIN schema.anyOf : validate(instance, schema.anyOf[i])

\* the `proxy` property of the provider schema, the same in both revisions
ProxySchema ==
    [type |-> "object",
     required |-> {"header_name", "header_property"},
     additionalProperties |-> TRUE,
     properties |->
        [enabled |-> [type |-> "boolean"],
         header_name |-> [type |-> "string"],
         header_property |-> [type |-> "string"],
         auto_sign_up |-> [type |-> "boolean"],
         sync_ttl |-> [type |-> "integer"],
         whitelist |-> [type |-> "array", items |-> [type |-> "string"]],
         headers |-> [type |-> "array", items |-> [type |-> "string"]],
         headers_encoded |-> [type |-> "boolean"],
         enable_login_token |-> [type |-> "boolean"]]]

\* revision 1 PROVIDER_JSON_SCHEMA
PROVIDER_JSON_SCHEMA ==
    [type |-> "object",
     required |-> {"application-data"},
     additionalProperties |-> TRUE,
     properties |->
        ("application-data" :>
            [type |-> "object",
             additionalProperties |-> TRUE,
             required |-> {"auth"},
             properties |->
                [auth |->
                    [additionalProperties |-> TRUE,
                     anyOf |-> << [required |-> {"proxy"}] >>,
                     type |-> "object",
                     properties |-> [proxy |-> ProxySchema]]]])]

\* revision 3 AUTH_PROXY_PROVIDER_JSON_SCHEMA
AUTH_PROXY_PROVIDER_JSON_SCHEMA ==
    [type |-> "object",
     required |-> {"application-data"},
     additionalProperties |-> TRUE,
     properties |->
        ("application-data" :>
            [type |-> "object",
             additionalProperties |-> TRUE,
             required |-> {"auth"},
             properties |->
                [auth |->
                    [additionalProperties |-> TRUE,
                     anyOf |-> << [required |-> {"proxy"}] >>,
                     type |-> "object",
                     properties |-> [proxy |-> ProxySchema]]]])]

\* revision 1 REQUIRER_JSON_SCHEMA: `url` is a keyword beside `required`, not a
\* member of `properties`
REQUIRER_JSON_SCHEMA_v1 ==
    [type |-> "object",
     required |-> {"application-data"},
     additionalProperties |-> TRUE,
     properties |->
        ("application-data" :>
            [type |-> "object",
             additionalProperties |-> TRUE,
             required |-> {"url"},
             url |-> [type |-> "string"]])]

\* revision 3 REQUIRER_JSON_SCHEMA with no `required` on the application databag
REQUIRER_JSON_SCHEMA_v3_NothingRequired ==
    [type |-> "object",
     required |-> {"application-data"},
     additionalProperties |-> TRUE,
     properties |->
        ("application-data" :>
            [type |-> "object",
             additionalProperties |-> TRUE,
             urls |-> [type |-> "list"]])]

\* revision 3 REQUIRER_JSON_SCHEMA: `urls` is a keyword beside `required`, not a
\* member of `properties`
REQUIRER_JSON_SCHEMA_v3 ==
    [type |-> "object",
     required |-> {"application-data"},
     additionalProperties |-> TRUE,
     properties |->
        ("application-data" :>
            [type |-> "object",
             additionalProperties |-> TRUE,
             required |-> {"urls"},
             urls |-> [type |-> "list"]])]

\* {"application-data": x}
ApplicationData(x) == Dict("application-data" :> x)

(***************************************************************************)
(* Revision 1 helpers.                                                     *)
(***************************************************************************)
\* _load_relation_data: every value json-decoded on its own, a value that is
\* no JSON kept as the string it is
load_relation_data(raw_relation_data) ==
    Dict([key \in DOMAIN raw_relation_data |->
            IF JSONDecodeError(raw_relation_data[key])
            THEN Str(raw_relation_data[key].doc.v)
            ELSE json_loads(raw_relation_data[key])])

\* GrafanaAuthProvides._app_relation_data_is_valid
GrafanaAuthProvides_app_relation_data_is_valid(app_relation_data) ==
    validate(ApplicationData(app_relation_data), REQUIRER_JSON_SCHEMA_v1)

\* GrafanaAuthRequires._app_relation_data_is_valid
GrafanaAuthRequires_app_relation_data_is_valid(app_relation_data) ==
    validate(ApplicationData(app_relation_data), PROVIDER_JSON_SCHEMA)

\* GrafanaAuthProvides._build_conf_dict
build_conf_dict(auth_type, kwargs) ==
    Dict("auth" :> Dict(auth_type :> Dict(kwargs)))

(***************************************************************************)
(* Revision 3 helpers.                                                     *)
(***************************************************************************)
\* GrafanaAuthProxyProvider.__init__ with `whitelist is not None` alone deciding
\* whether whitelist is set: an empty whitelist is then published
GrafanaAuthProxyProvider_init_EmptyWhitelist(a) ==
    LET keys == {"enabled", "header_name", "header_property", "auto_sign_up"}
                \cup (IF a.sync_ttl.ty # "none" THEN {"sync_ttl"} ELSE {})
                \cup (IF a.whitelist.ty # "none" THEN {"whitelist"} ELSE {})
                \cup (IF a.headers.ty # "none" /\ Truthy(a.headers)
                      THEN {"headers"} ELSE {})
                \cup (IF a.headers_encoded.ty # "none" THEN {"headers_encoded"} ELSE {})
                \cup (IF a.enable_login_token.ty # "none"
                      THEN {"enable_login_token"} ELSE {})
        config_options == [k \in keys |-> IF k = "enabled" THEN Bool(TRUE) ELSE a[k]]
    IN  Dict("proxy" :> Dict(config_options))

\* GrafanaAuthProxyProvider.__init__: the _auth_config built from the arguments
GrafanaAuthProxyProvider_init(a) ==
    LET keys == {"enabled", "header_name", "header_property", "auto_sign_up"}
                \cup (IF a.sync_ttl.ty # "none" THEN {"sync_ttl"} ELSE {})
                \cup (IF a.whitelist.ty # "none" /\ Truthy(a.whitelist)
                      THEN {"whitelist"} ELSE {})
                \cup (IF a.headers.ty # "none" /\ Truthy(a.headers)
                      THEN {"headers"} ELSE {})
                \cup (IF a.headers_encoded.ty # "none" THEN {"headers_encoded"} ELSE {})
                \cup (IF a.enable_login_token.ty # "none"
                      THEN {"enable_login_token"} ELSE {})
        config_options == [k \in keys |-> IF k = "enabled" THEN Bool(TRUE) ELSE a[k]]
    IN  Dict("proxy" :> Dict(config_options))

\* GrafanaAuthProxyProvider._validate_auth_config_json_schema
validate_auth_config_json_schema(auth_config) ==
    validate(ApplicationData(Dict("auth" :> auth_config)), AUTH_PROXY_PROVIDER_JSON_SCHEMA)

\* AuthRequirer._set_urls_in_relation_data: the validate(...) call in its try
validate_urls(urls) ==
    validate(ApplicationData(Dict("urls" :> urls)), REQUIRER_JSON_SCHEMA_v3)

(***************************************************************************)
(* Bounds and the inputs of the model.                                     *)
(***************************************************************************)
MaxUnits == 2
MaxRelations == 1

Units == 1..MaxUnits
RelIds == 1..MaxRelations
Apps == {"provider", "requirer"}

\* the other application of a relation
RemoteApp(app) == IF app = "provider" THEN "requirer" ELSE "provider"

HEADER_NAME == Str("X-WEBAUTH-USER")
HEADER_PROPERTY == Str("username")
EXAMPLE_URL == Str("https://grafana.example.com/")

\* GrafanaAuthProxyProvider(charm): every argument at its default
ProxyDefaults ==
    [header_name |-> HEADER_NAME, header_property |-> HEADER_PROPERTY,
     auto_sign_up |-> Bool(TRUE), sync_ttl |-> None, whitelist |-> None,
     headers |-> None, headers_encoded |-> None, enable_login_token |-> None]

\* constructor arguments of a revision 3 provider
ProxyArgs ==
    { ProxyDefaults,
      [ProxyDefaults EXCEPT !.header_property = Str("email"),
                            !.auto_sign_up = Bool(FALSE),
                            !.whitelist = List(<<Str("localhost"), Str("canonical.com")>>)],
      [ProxyDefaults EXCEPT !.sync_ttl = Int_(60),
                            !.headers = List(<<Str("X-Forwarded-User")>>),
                            !.headers_encoded = Bool(TRUE),
                            !.enable_login_token = Bool(TRUE)],
      [ProxyDefaults EXCEPT !.whitelist = List(<< >>), !.headers = List(<< >>)],
      [ProxyDefaults EXCEPT !.header_name = Str("X-Remote-User"),
                            !.sync_ttl = Int_(0),
                            !.headers_encoded = Bool(FALSE),
                            !.enable_login_token = Bool(FALSE)],
      \* a header_name that is no string: the annotations are not enforced
      [ProxyDefaults EXCEPT !.header_name = Int_(5)] }

\* constructor arguments of a revision 1 provider: auth_type and **kwargs
ProvidesArgs ==
    { [auth_type |-> "proxy",
       kwargs |-> [header_name |-> HEADER_NAME, header_property |-> HEADER_PROPERTY,
                   auto_sign_up |-> Bool(FALSE)]],
      [auth_type |-> "proxy",
       kwargs |-> [header_name |-> HEADER_NAME, header_property |-> Str("email")]] }

\* constructor argument of a revision 3 requirer: urls
UrlsArgs == { List(<<EXAMPLE_URL>>), List(<< >>) }

\* constructor argument of a revision 1 requirer: grafana_url
GrafanaUrlArgs == { EXAMPLE_URL, Str("") }

\* what a peer application that is not this library may hold in its databag
PROXY_OPTIONS ==
    [header_name |-> HEADER_NAME, header_property |-> HEADER_PROPERTY,
     auto_sign_up |-> Bool(FALSE)]

PeerAuthDocs ==
    { Dict("proxy" :> Dict(PROXY_OPTIONS)),
      Dict("proxy" :> Dict([header_property |-> HEADER_PROPERTY,
                            auto_sign_up |-> Bool(FALSE)])),
      Dict("proxy" :> Dict([header_name |-> HEADER_NAME, auto_sign_up |-> Bool(FALSE)])),
      Dict("wrong_mode" :> Dict(PROXY_OPTIONS)),
      Dict("proxy" :> Dict([PROXY_OPTIONS EXCEPT !.header_name = Int_(5)])) }

\* the value a provider of revision r stores: revision 1 wraps the document in `auth`
AuthPayload(r, doc) == IF r = 1 THEN Dict("auth" :> doc) ELSE doc

PeerAuthTexts(r) ==
    { json_dumps(AuthPayload(r, doc)) : doc \in PeerAuthDocs }
    \cup { RawText("not json"), EmptyText }

PeerUrlTexts(r) ==
    IF r = 1
    THEN { json_dumps(Dict("url" :> EXAMPLE_URL)),
           json_dumps(Dict("wrong_key" :> EXAMPLE_URL)),
           json_dumps(EXAMPLE_URL),
           RawText(EXAMPLE_URL.v),
           EmptyText }
    ELSE { json_dumps(List(<<EXAMPLE_URL>>)),
           json_dumps(List(<<EXAMPLE_URL, Str("https://other.example.com/")>>)),
           json_dumps(List(<< >>)),
           json_dumps(EXAMPLE_URL),
           RawText(EXAMPLE_URL.v),
           EmptyText }

\* the key each side publishes under
AuthKey(r) == IF r = 1 THEN "grafana_auth" ELSE "auth"
UrlKey(r) == IF r = 1 THEN "grafana_url" ELSE "urls"

(***************************************************************************)
(* State.                                                                  *)
(***************************************************************************)
VARIABLES
    rev,            \* the revision of the library both charms carry: 1 or 3
    provider_args,  \* [unit -> the arguments its charm gives the provider object]
    requirer_args,  \* [unit -> the argument its charm gives the requirer object]
    leader,         \* [application -> its leader unit]
    relations,      \* the ids of the relations that exist
    data,           \* [relation id -> [application -> databag: key -> text]]
    last,           \* the latest handler run: who ran it, how it ended, what it emitted
    handled,        \* history: the applications whose leader has handled relation_joined
    call            \* a library function or constructor applied on its own: its
                    \* arguments and, once applied, what it returned or raised

vars == <<rev, provider_args, requirer_args, leader, relations, data, last, handled, call>>

\* no function is being applied on its own
NoCall == [fn |-> "none", done |-> TRUE]

NoRun ==
    [handler |-> "none", app |-> "none", unit |-> 0, trigger |-> "none", rel |-> 0,
     is_leader |-> FALSE, raised |-> "", emitted |-> << >>]

\* a leadership check that every unit passes
is_leader_Always(app, unit) == TRUE

\* self._charm.unit.is_leader()
is_leader(app, unit) == leader[app] = unit

\* a handler run that has so far neither raised nor emitted
Run(handler, app, unit, trigger, rel) ==
    [handler |-> handler, app |-> app, unit |-> unit, trigger |-> trigger, rel |-> rel,
     is_leader |-> is_leader(app, unit), raised |-> "", emitted |-> << >>]

Raise(run, exc) == [run EXCEPT !.raised = exc]

\* the parameters of each event class's __init__, the handle aside
EventInitParams(event_type) ==
    CASE event_type = "GrafanaUrlAvailableEvent" -> {"grafana_url", "relation_id"}
      [] event_type = "AuthConfAvailableEvent_v1" -> {"auth_conf", "relation_id"}
      [] event_type = "UrlsAvailableEvent" -> {"urls", "relation_id"}
      [] event_type = "AuthConfAvailableEvent" -> {"auth", "relation_id"}
      [] event_type = "AuthConfRevokedEvent" -> {"revoked_auth_modes", "relation_id"}

\* BoundEvent.emit(**kwargs): the event is built by event_type(handle, **kwargs),
\* a TypeError when the keywords are not the parameters of __init__
Emit(run, event_type, kwargs) ==
    IF DOMAIN kwargs = EventInitParams(event_type)
    THEN [run EXCEPT !.emitted = Append(@, [event_type |-> event_type, kwargs |-> kwargs])]
    ELSE Raise(run, "TypeError")

\* bag[key] = text
BagSet(bag, key, text) ==
    [k \in (DOMAIN bag) \cup {key} |-> IF k = key THEN text ELSE bag[k]]

\* bag.get(key, "")
BagGet(bag, key) == IF key \in DOMAIN bag THEN bag[key] ELSE EmptyText

\* relation.data[app][key] = text by a handler of `run.app`.  The databag of the
\* other application is the host's to protect: it either refuses the write with
\* RelationDataError or, a plain mapping, takes it.
SetItem(run, rel, app, key, text) ==
    \/ /\ data' = [data EXCEPT ![rel][app] = BagSet(@, key, text)]
       /\ last' = run
    \/ /\ app # run.app
       /\ data' = data
       /\ last' = Raise(run, "RelationDataError")

\* a handler that ends without writing
Return(run) == data' = data /\ last' = run

Init ==
    /\ rev \in {1, 3}
    /\ provider_args \in [Units -> IF rev = 1 THEN ProvidesArgs ELSE ProxyArgs]
    /\ requirer_args \in [Units -> IF rev = 1 THEN GrafanaUrlArgs ELSE UrlsArgs]
    \* every unit of an application runs the same charm
    /\ \A u \in Units : provider_args[u] = provider_args[1]
    /\ \A u \in Units : requirer_args[u] = requirer_args[1]
    /\ leader \in [Apps -> Units]
    /\ relations = {}
    /\ data = [r \in RelIds |-> [a \in Apps |-> << >>]]
    /\ last = NoRun
    /\ handled = {}
    /\ call = NoCall

(***************************************************************************)
(* The host: leadership, relations, and what another charm writes.         *)
(***************************************************************************)
Static == UNCHANGED <<rev, provider_args, requirer_args>>

LeaderChange(app, u) ==
    /\ leader[app] # u
    /\ leader' = [leader EXCEPT ![app] = u]
    /\ last' = NoRun
    /\ UNCHANGED <<relations, data>>
    /\ Static

RelationCreated(r) ==
    /\ r \notin relations
    /\ relations' = relations \cup {r}
    /\ last' = NoRun
    /\ UNCHANGED <<leader, data>>
    /\ Static

\* the <<key, text>> pairs the application `app`, not running this library, may set
\* in its own databag: the key of its role, and for the requirer of revision 1, whose
\* databag the provider looks `grafana_auth` up in, a value under that key too
PeerItems(app) ==
    IF app = "provider"
    THEN { <<AuthKey(rev), text>> : text \in PeerAuthTexts(rev) }
    ELSE { <<UrlKey(rev), text>> : text \in PeerUrlTexts(rev) }
         \cup (IF rev = 1 THEN { <<"grafana_auth", json_dumps(Dict(<< >>))>> } ELSE {})

\* the application `app`, not running this library, sets a key of its own databag
PeerSetsData(r, app) ==
    /\ r \in relations
    /\ \E item \in PeerItems(app) :
          data' = [data EXCEPT ![r][app] = BagSet(@, item[1], item[2])]
    /\ last' = NoRun
    /\ UNCHANGED <<leader, relations>>
    /\ Static

\* the host tears relation r down and delivers relation_departed to unit u of `app`.
\* Neither revision observes the event: no handler of the library runs, nothing is
\* emitted, and the relation and its databags are gone.
RelationDeparted(r, app, u) ==
    /\ r \in relations
    /\ relations' = relations \ {r}
    /\ data' = [data EXCEPT ![r] = [a \in Apps |-> << >>]]
    /\ last' = [NoRun EXCEPT !.app = app, !.unit = u, !.trigger = "relation_departed",
                             !.rel = r, !.is_leader = is_leader(app, u)]
    /\ UNCHANGED leader
    /\ Static

Frame == UNCHANGED <<leader, relations>> /\ Static

(***************************************************************************)
(* Revision 1 handlers.  A relation event carries its relation and, as     *)
(* event.app, the remote application.                                      *)
(***************************************************************************)
\* GrafanaAuthProvides.__init__: self._auth_conf
auth_conf(u) == build_conf_dict(provider_args[u].auth_type, provider_args[u].kwargs)

\* GrafanaAuthRequires.__init__: self._grafana_url
grafana_url_conf(u) == Dict("url" :> requirer_args[u])

\* GrafanaAuthProvides._set_auth_config_in_relation_data, on relation_joined
GrafanaAuthProvides_set_auth_config_in_relation_data(u, r) ==
    /\ rev = 1
    /\ r \in relations
    /\ LET run == Run("set_auth_config_in_relation_data", "provider", u, "relation_joined", r)
           event_app == RemoteApp("provider")
           relation_data_dict == load_relation_data(data[r][event_app])
           current_auth_conf == DictGet(relation_data_dict, "grafana_auth")
       IN  IF ~run.is_leader
           THEN Return(run)
           ELSE IF Truthy(current_auth_conf)
                THEN Return(run)
                ELSE SetItem(run, r, event_app, "grafana_auth", json_dumps(auth_conf(u)))
    /\ Frame

\* GrafanaAuthProvides._on_grafana_auth_relation_changed
GrafanaAuthProvides_on_grafana_auth_relation_changed(u, r) ==
    /\ rev = 1
    /\ r \in relations
    /\ LET run == Run("on_grafana_auth_relation_changed", "provider", u, "relation_changed", r)
           event_app == RemoteApp("provider")
           relation_data == load_relation_data(data[r][event_app])
           grafana_url == DictGet(relation_data, "grafana_url")
       IN  IF ~run.is_leader
           THEN Return(run)
           ELSE IF ~Truthy(relation_data)
                THEN Return(run)
                ELSE IF ~Truthy(grafana_url)
                     THEN Return(run)
                     ELSE IF ~GrafanaAuthProvides_app_relation_data_is_valid(grafana_url)
                          THEN Return(run)
                          ELSE Return(Emit(run, "GrafanaUrlAvailableEvent",
                                           [grafana_url |-> grafana_url]))
    /\ Frame

\* GrafanaAuthRequires._on_grafana_auth_relation_changed
GrafanaAuthRequires_on_grafana_auth_relation_changed(u, r) ==
    /\ rev = 1
    /\ r \in relations
    /\ LET run == Run("on_grafana_auth_relation_changed", "requirer", u, "relation_changed", r)
           event_app == RemoteApp("requirer")
           relation_data == load_relation_data(data[r][event_app])
           auth_conf_ == DictGet(relation_data, "grafana_auth")
       IN  IF ~run.is_leader
           THEN Return(run)
           ELSE IF ~Truthy(relation_data)
                THEN Return(run)
                ELSE IF ~Truthy(auth_conf_)
                     THEN Return(run)
                     ELSE IF ~GrafanaAuthRequires_app_relation_data_is_valid(auth_conf_)
                          THEN Return(run)
                          ELSE Return(Emit(run, "AuthConfAvailableEvent_v1",
                                           [auth_conf |-> auth_conf_]))
    /\ Frame

\* GrafanaAuthRequires._set_grafana_url_in_relation_data without its leader check
GrafanaAuthRequires_set_grafana_url_in_relation_data_NoLeaderCheck(u, r) ==
    /\ rev = 1
    /\ r \in relations
    /\ LET run == Run("set_grafana_url_in_relation_data", "requirer", u, "relation_joined", r)
           event_app == RemoteApp("requirer")
       IN  SetItem(run, r, event_app, "grafana_url", json_dumps(grafana_url_conf(u)))
    /\ Frame

\* GrafanaAuthRequires._set_grafana_url_in_relation_data, on relation_joined
GrafanaAuthRequires_set_grafana_url_in_relation_data(u, r) ==
    /\ rev = 1
    /\ r \in relations
    /\ LET run == Run("set_grafana_url_in_relation_data", "requirer", u, "relation_joined", r)
           event_app == RemoteApp("requirer")
       IN  IF ~run.is_leader
           THEN Return(run)
           ELSE SetItem(run, r, event_app, "grafana_url", json_dumps(grafana_url_conf(u)))
    /\ Frame

(***************************************************************************)
(* Revision 3 handlers.  They take the relation from the model by name.    *)
(***************************************************************************)
\* Model.get_relation(name) without an id: None (0) when there is no relation
get_relation == IF relations = {} THEN 0 ELSE CHOOSE r \in relations : TRUE

\* Model.get_relation(name) raises when more than one relation carries the name
TooManyRelatedAppsError == Cardinality(relations) > 1

\* the relation a trigger carries: a relation event one that exists, the others none
TriggerRelation(trigger, r) ==
    IF trigger \in {"relation_joined", "relation_changed"} THEN r \in relations ELSE r = 0

\* GrafanaAuthProxyProvider.__init__: self._auth_config
auth_config(u) == GrafanaAuthProxyProvider_init(provider_args[u])

\* AuthProvider._set_auth_config_in_relation_data writing as revision 1 does, only
\* when the databag holds no value yet
AuthProvider_set_auth_config_in_relation_data_WriteOnce(u, trigger, r) ==
    /\ rev = 3
    /\ trigger \in {"relation_joined", "leader_elected"}
    /\ TriggerRelation(trigger, r)
    /\ LET run == Run("set_auth_config_in_relation_data", "provider", u, trigger, r)
           relation == get_relation
       IN  IF ~run.is_leader
           THEN Return(run)
           ELSE IF TooManyRelatedAppsError
                THEN Return(Raise(run, "TooManyRelatedAppsError"))
                ELSE IF relation = 0
                     THEN Return(run)
                     ELSE IF ~Truthy(auth_config(u))
                          THEN Return(run)
                          ELSE IF BagGet(data[relation]["provider"], "auth") # EmptyText
                               THEN Return(run)
                               ELSE SetItem(run, relation, "provider", "auth",
                                            json_dumps(auth_config(u)))
    /\ Frame

\* AuthProvider._set_auth_config_in_relation_data, on relation_joined and leader_elected
AuthProvider_set_auth_config_in_relation_data(u, trigger, r) ==
    /\ rev = 3
    /\ trigger \in {"relation_joined", "leader_elected"}
    /\ TriggerRelation(trigger, r)
    /\ LET run == Run("set_auth_config_in_relation_data", "provider", u, trigger, r)
           relation == get_relation
       IN  IF ~run.is_leader
           THEN Return(run)
           ELSE IF TooManyRelatedAppsError
                THEN Return(Raise(run, "TooManyRelatedAppsError"))
                ELSE IF relation = 0
                     THEN Return(run)
                     ELSE IF ~Truthy(auth_config(u))
                          THEN Return(run)
                          ELSE \* a failed validation is logged and the write still made
                               SetItem(run, relation, "provider", "auth",
                                       json_dumps(auth_config(u)))
    /\ Frame

\* AuthProvider._get_urls_from_relation_data emitting as revision 1 does, without
\* the relation id
AuthProvider_get_urls_from_relation_data_NoRelationId(u, trigger, r) ==
    /\ rev = 3
    /\ trigger \in {"relation_changed", "pebble_ready"}
    /\ TriggerRelation(trigger, r)
    /\ LET run == Run("get_urls_from_relation_data", "provider", u, trigger, r)
           relation == get_relation
           urls_json == BagGet(data[relation][RemoteApp("provider")], "urls")
       IN  IF ~run.is_leader
           THEN Return(run)
           ELSE IF TooManyRelatedAppsError
                THEN Return(Raise(run, "TooManyRelatedAppsError"))
                ELSE IF relation = 0
                     THEN Return(run)
                     ELSE IF urls_json = EmptyText
                          THEN Return(run)
                          ELSE IF JSONDecodeError(urls_json)
                               THEN Return(Raise(run, "JSONDecodeError"))
                               ELSE Return(Emit(run, "UrlsAvailableEvent",
                                                [urls |-> json_loads(urls_json)]))
    /\ Frame

\* AuthProvider._get_urls_from_relation_data publishing the configuration anew
\* once it has read the urls
AuthProvider_get_urls_from_relation_data_Republishes(u, trigger, r) ==
    /\ rev = 3
    /\ trigger \in {"relation_changed", "pebble_ready"}
    /\ TriggerRelation(trigger, r)
    /\ LET run == Run("get_urls_from_relation_data", "provider", u, trigger, r)
           relation == get_relation
           urls_json == BagGet(data[relation][RemoteApp("provider")], "urls")
       IN  IF ~run.is_leader
           THEN Return(run)
           ELSE IF TooManyRelatedAppsError
                THEN Return(Raise(run, "TooManyRelatedAppsError"))
                ELSE IF relation = 0
                     THEN Return(run)
                     ELSE IF urls_json = EmptyText
                          THEN Return(run)
                          ELSE IF JSONDecodeError(urls_json)
                               THEN Return(Raise(run, "JSONDecodeError"))
                               ELSE SetItem(Emit(run, "UrlsAvailableEvent",
                                                 [urls |-> json_loads(urls_json),
                                                  relation_id |-> Int_(relation)]),
                                            relation, "provider", "auth",
                                            json_dumps(auth_config(u)))
    /\ Frame

\* AuthProvider._get_urls_from_relation_data, on relation_changed and pebble_ready
AuthProvider_get_urls_from_relation_data(u, trigger, r) ==
    /\ rev = 3
    /\ trigger \in {"relation_changed", "pebble_ready"}
    /\ TriggerRelation(trigger, r)
    /\ LET run == Run("get_urls_from_relation_data", "provider", u, trigger, r)
           relation == get_relation
           urls_json == BagGet(data[relation][RemoteApp("provider")], "urls")
       IN  IF ~run.is_leader
           THEN Return(run)
           ELSE IF TooManyRelatedAppsError
                THEN Return(Raise(run, "TooManyRelatedAppsError"))
                ELSE IF relation = 0
                     THEN Return(run)
                     ELSE IF urls_json = EmptyText
                          THEN Return(run)
                          ELSE IF JSONDecodeError(urls_json)
                               THEN Return(Raise(run, "JSONDecodeError"))
                               ELSE Return(Emit(run, "UrlsAvailableEvent",
                                                [urls |-> json_loads(urls_json),
                                                 relation_id |-> Int_(relation)]))
    /\ Frame

\* AuthRequirer._set_urls_in_relation_data without its `if not relation: return`:
\* relation.data of None is an AttributeError
AuthRequirer_set_urls_in_relation_data_NoRelationCheck(u, trigger, r) ==
    /\ rev = 3
    /\ trigger \in {"relation_joined", "leader_elected"}
    /\ TriggerRelation(trigger, r)
    /\ LET run == Run("set_urls_in_relation_data", "requirer", u, trigger, r)
           relation == get_relation
           urls == requirer_args[u]
       IN  IF ~run.is_leader
           THEN Return(run)
           ELSE IF TooManyRelatedAppsError
                THEN Return(Raise(run, "TooManyRelatedAppsError"))
                ELSE IF ~Truthy(urls)
                     THEN Return(run)
                     ELSE IF ~validate_urls(urls)
                          THEN Return(run)
                          ELSE IF relation = 0
                               THEN Return(Raise(run, "AttributeError"))
                               ELSE SetItem(run, relation, "requirer", "urls",
                                            json_dumps(urls))
    /\ Frame

\* AuthRequirer._set_urls_in_relation_data without its `if not self._urls: return`
AuthRequirer_set_urls_in_relation_data_NoEmptyCheck(u, trigger, r) ==
    /\ rev = 3
    /\ trigger \in {"relation_joined", "leader_elected"}
    /\ TriggerRelation(trigger, r)
    /\ LET run == Run("set_urls_in_relation_data", "requirer", u, trigger, r)
           relation == get_relation
           urls == requirer_args[u]
       IN  IF ~run.is_leader
           THEN Return(run)
           ELSE IF TooManyRelatedAppsError
                THEN Return(Raise(run, "TooManyRelatedAppsError"))
                ELSE IF relation = 0
                     THEN Return(run)
                     ELSE IF ~validate_urls(urls)
                          THEN Return(run)
                          ELSE SetItem(run, relation, "requirer", "urls",
                                       json_dumps(urls))
    /\ Frame

\* AuthRequirer._set_urls_in_relation_data, on relation_joined and leader_elected
AuthRequirer_set_urls_in_relation_data(u, trigger, r) ==
    /\ rev = 3
    /\ trigger \in {"relation_joined", "leader_elected"}
    /\ TriggerRelation(trigger, r)
    /\ LET run == Run("set_urls_in_relation_data", "requirer", u, trigger, r)
           relation == get_relation
           urls == requirer_args[u]
       IN  IF ~run.is_leader
           THEN Return(run)
           ELSE IF TooManyRelatedAppsError
                THEN Return(Raise(run, "TooManyRelatedAppsError"))
                ELSE IF relation = 0
                     THEN Return(run)
                     ELSE IF ~Truthy(urls)
                          THEN Return(run)
                          ELSE IF ~validate_urls(urls)
                               THEN Return(run)
                               ELSE SetItem(run, relation, "requirer", "urls",
                                            json_dumps(urls))
    /\ Frame

\* AuthRequirer._get_auth_config_from_relation_data without its `if not auth_conf_json`
AuthRequirer_get_auth_config_from_relation_data_NoEmptyCheck(u, trigger, r) ==
    /\ rev = 3
    /\ trigger \in {"relation_changed", "pebble_ready"}
    /\ TriggerRelation(trigger, r)
    /\ LET run == Run("get_auth_config_from_relation_data", "requirer", u, trigger, r)
           relation == get_relation
           auth_conf_json == BagGet(data[relation][RemoteApp("requirer")], "auth")
       IN  IF ~run.is_leader
           THEN Return(run)
           ELSE IF TooManyRelatedAppsError
                THEN Return(Raise(run, "TooManyRelatedAppsError"))
                ELSE IF relation = 0
                     THEN Return(run)
                     ELSE IF JSONDecodeError(auth_conf_json)
                          THEN Return(Raise(run, "JSONDecodeError"))
                          ELSE Return(Emit(run, "AuthConfAvailableEvent",
                                           [auth |-> json_loads(auth_conf_json),
                                            relation_id |-> Int_(relation)]))
    /\ Frame

\* AuthRequirer._get_auth_config_from_relation_data reading relation.data[self._charm.app],
\* its own application's databag, instead of relation.data[relation.app]
AuthRequirer_get_auth_config_from_relation_data_OwnBag(u, trigger, r) ==
    /\ rev = 3
    /\ trigger \in {"relation_changed", "pebble_ready"}
    /\ TriggerRelation(trigger, r)
    /\ LET run == Run("get_auth_config_from_relation_data", "requirer", u, trigger, r)
           relation == get_relation
           auth_conf_json == BagGet(data[relation]["requirer"], "auth")
       IN  IF ~run.is_leader
           THEN Return(run)
           ELSE IF TooManyRelatedAppsError
                THEN Return(Raise(run, "TooManyRelatedAppsError"))
                ELSE IF relation = 0
                     THEN Return(run)
                     ELSE IF auth_conf_json = EmptyText
                          THEN Return(run)
                          ELSE IF JSONDecodeError(auth_conf_json)
                               THEN Return(Raise(run, "JSONDecodeError"))
                               ELSE Return(Emit(run, "AuthConfAvailableEvent",
                                                [auth |-> json_loads(auth_conf_json),
                                                 relation_id |-> Int_(relation)]))
    /\ Frame

\* AuthRequirer._get_auth_config_from_relation_data, on relation_changed and pebble_ready
AuthRequirer_get_auth_config_from_relation_data(u, trigger, r) ==
    /\ rev = 3
    /\ trigger \in {"relation_changed", "pebble_ready"}
    /\ TriggerRelation(trigger, r)
    /\ LET run == Run("get_auth_config_from_relation_data", "requirer", u, trigger, r)
           relation == get_relation
           auth_conf_json == BagGet(data[relation][RemoteApp("requirer")], "auth")
       IN  IF ~run.is_leader
           THEN Return(run)
           ELSE IF TooManyRelatedAppsError
                THEN Return(Raise(run, "TooManyRelatedAppsError"))
                ELSE IF relation = 0
                     THEN Return(run)
                     ELSE IF auth_conf_json = EmptyText
                          THEN Return(run)
                          ELSE IF JSONDecodeError(auth_conf_json)
                               THEN Return(Raise(run, "JSONDecodeError"))
                               ELSE Return(Emit(run, "AuthConfAvailableEvent",
                                                [auth |-> json_loads(auth_conf_json),
                                                 relation_id |-> Int_(relation)]))
    /\ Frame

Triggers == {"relation_joined", "relation_changed", "leader_elected", "pebble_ready"}

\* the host delivers its events in any order, to any unit, and another charm may
\* hold the other end of a relation; the history of joins is not followed here
Next ==
    \/ \E app \in Apps, u \in Units : LeaderChange(app, u) /\ UNCHANGED <<handled, call>>
    \/ \E r \in RelIds : RelationCreated(r) /\ UNCHANGED <<handled, call>>
    \/ \E r \in RelIds, app \in Apps : PeerSetsData(r, app) /\ UNCHANGED <<handled, call>>
    \/ \E r \in RelIds, app \in Apps, u \in Units :
          RelationDeparted(r, app, u) /\ UNCHANGED <<handled, call>>
    \/ \E u \in Units, r \in RelIds :
          GrafanaAuthProvides_set_auth_config_in_relation_data(u, r) /\ UNCHANGED <<handled, call>>
    \/ \E u \in Units, r \in RelIds :
          GrafanaAuthProvides_on_grafana_auth_relation_changed(u, r) /\ UNCHANGED <<handled, call>>
    \/ \E u \in Units, r \in RelIds :
          GrafanaAuthRequires_on_grafana_auth_relation_changed(u, r) /\ UNCHANGED <<handled, call>>
    \/ \E u \in Units, r \in RelIds :
          GrafanaAuthRequires_set_grafana_url_in_relation_data(u, r) /\ UNCHANGED <<handled, call>>
    \/ \E u \in Units, t \in Triggers, r \in RelIds \cup {0} :
          AuthProvider_set_auth_config_in_relation_data(u, t, r) /\ UNCHANGED <<handled, call>>
    \/ \E u \in Units, t \in Triggers, r \in RelIds \cup {0} :
          AuthProvider_get_urls_from_relation_data(u, t, r) /\ UNCHANGED <<handled, call>>
    \/ \E u \in Units, t \in Triggers, r \in RelIds \cup {0} :
          AuthRequirer_set_urls_in_relation_data(u, t, r) /\ UNCHANGED <<handled, call>>
    \/ \E u \in Units, t \in Triggers, r \in RelIds \cup {0} :
          AuthRequirer_get_auth_config_from_relation_data(u, t, r) /\ UNCHANGED <<handled, call>>

Spec == Init /\ [][Next]_vars

(***************************************************************************)
(* Fair delivery: the host delivers relation_joined to every unit and      *)
(* leader_elected to the unit it elects, so the provider's leader does get *)
(* to handle an event its publish handler observes.                        *)
(***************************************************************************)
ProviderLeaderPublishes ==
    /\ \/ \E r \in RelIds :
             GrafanaAuthProvides_set_auth_config_in_relation_data(leader["provider"], r)
       \/ \E t \in {"relation_joined", "leader_elected"}, r \in RelIds \cup {0} :
             AuthProvider_set_auth_config_in_relation_data(leader["provider"], t, r)
    /\ UNCHANGED <<handled, call>>

FairSpec == Spec /\ WF_vars(ProviderLeaderPublishes)

(***************************************************************************)
(* The handshake: both ends of a relation carry this library, in the same   *)
(* revision, and only the leader unit of each application acts.  Nothing    *)
(* but the library writes the databags.                                     *)
(***************************************************************************)
\* relation_joined delivered to the provider's leader
Handshake_provider_relation_joined(r) ==
    /\ \/ GrafanaAuthProvides_set_auth_config_in_relation_data(leader["provider"], r)
       \/ AuthProvider_set_auth_config_in_relation_data(leader["provider"],
                                                        "relation_joined", r)
    /\ handled' = handled \cup {"provider"}
    /\ UNCHANGED call

\* relation_joined delivered to the requirer's leader
Handshake_requirer_relation_joined(r) ==
    /\ \/ GrafanaAuthRequires_set_grafana_url_in_relation_data(leader["requirer"], r)
       \/ AuthRequirer_set_urls_in_relation_data(leader["requirer"], "relation_joined", r)
    /\ handled' = handled \cup {"requirer"}
    /\ UNCHANGED call

\* relation_changed delivered to the provider's leader
Handshake_provider_relation_changed(r) ==
    /\ \/ GrafanaAuthProvides_on_grafana_auth_relation_changed(leader["provider"], r)
       \/ AuthProvider_get_urls_from_relation_data(leader["provider"],
                                                   "relation_changed", r)
    /\ UNCHANGED <<handled, call>>

\* relation_changed delivered to the requirer's leader
Handshake_requirer_relation_changed(r) ==
    /\ \/ GrafanaAuthRequires_on_grafana_auth_relation_changed(leader["requirer"], r)
       \/ AuthRequirer_get_auth_config_from_relation_data(leader["requirer"],
                                                          "relation_changed", r)
    /\ UNCHANGED <<handled, call>>

HandshakeNext ==
    \/ \E r \in RelIds : RelationCreated(r) /\ UNCHANGED <<handled, call>>
    \/ \E r \in RelIds : Handshake_provider_relation_joined(r)
    \/ \E r \in RelIds : Handshake_requirer_relation_joined(r)
    \/ \E r \in RelIds : Handshake_provider_relation_changed(r)
    \/ \E r \in RelIds : Handshake_requirer_relation_changed(r)

Handshake == Init /\ [][HandshakeNext]_vars

(***************************************************************************)
(* Several relations of the same name at once.  Every charm is configured  *)
(* the same way, and a peer that is not this library holds a valid value.  *)
(***************************************************************************)
MultiRelIds == 1..(MaxRelations + 1)

\* a valid value of the key `app` publishes, as another charm would hold it
ValidPeerText(app) ==
    IF app = "provider"
    THEN json_dumps(AuthPayload(rev, Dict("proxy" :> Dict(PROXY_OPTIONS))))
    ELSE (IF rev = 1 THEN json_dumps(Dict("url" :> EXAMPLE_URL))
          ELSE json_dumps(List(<<EXAMPLE_URL>>)))

MultiInit ==
    /\ rev \in {1, 3}
    /\ provider_args = [u \in Units |->
                          IF rev = 1
                          THEN [auth_type |-> "proxy",
                                kwargs |-> [header_name |-> HEADER_NAME,
                                            header_property |-> Str("email")]]
                          ELSE ProxyDefaults]
    /\ requirer_args = [u \in Units |-> IF rev = 1 THEN EXAMPLE_URL
                                         ELSE List(<<EXAMPLE_URL>>)]
    /\ leader \in [Apps -> Units]
    /\ relations = {}
    /\ data = [r \in MultiRelIds |-> [a \in Apps |-> << >>]]
    /\ last = NoRun
    /\ handled = {}
    /\ call = NoCall

\* another charm at the other end of relation r sets its key to a valid value
Multi_PeerSetsValid(r, app) ==
    /\ PeerSetsData(r, app)
    /\ data'[r][app] = BagSet(data[r][app],
                              IF app = "provider" THEN AuthKey(rev) ELSE UrlKey(rev),
                              ValidPeerText(app))

MultiNext ==
    \/ \E r \in MultiRelIds : RelationCreated(r) /\ UNCHANGED <<handled, call>>
    \/ \E r \in MultiRelIds, app \in Apps : Multi_PeerSetsValid(r, app) /\ UNCHANGED <<handled, call>>
    \/ \E u \in Units, r \in MultiRelIds :
          GrafanaAuthProvides_set_auth_config_in_relation_data(u, r) /\ UNCHANGED <<handled, call>>
    \/ \E u \in Units, r \in MultiRelIds :
          GrafanaAuthProvides_on_grafana_auth_relation_changed(u, r) /\ UNCHANGED <<handled, call>>
    \/ \E u \in Units, r \in MultiRelIds :
          GrafanaAuthRequires_on_grafana_auth_relation_changed(u, r) /\ UNCHANGED <<handled, call>>
    \/ \E u \in Units, r \in MultiRelIds :
          GrafanaAuthRequires_set_grafana_url_in_relation_data(u, r) /\ UNCHANGED <<handled, call>>
    \/ \E u \in Units, t \in Triggers, r \in MultiRelIds \cup {0} :
          AuthProvider_set_auth_config_in_relation_data(u, t, r) /\ UNCHANGED <<handled, call>>
    \/ \E u \in Units, t \in Triggers, r \in MultiRelIds \cup {0} :
          AuthProvider_get_urls_from_relation_data(u, t, r) /\ UNCHANGED <<handled, call>>
    \/ \E u \in Units, t \in Triggers, r \in MultiRelIds \cup {0} :
          AuthRequirer_set_urls_in_relation_data(u, t, r) /\ UNCHANGED <<handled, call>>
    \/ \E u \in Units, t \in Triggers, r \in MultiRelIds \cup {0} :
          AuthRequirer_get_auth_config_from_relation_data(u, t, r) /\ UNCHANGED <<handled, call>>

Multi == MultiInit /\ [][MultiNext]_vars

(***************************************************************************)
(* Leadership over units that differ: revision 3 with every unit of the    *)
(* provider application holding a configuration of its own.  Unit 1 leads  *)
(* at first.                                                               *)
(***************************************************************************)
LeadershipInit ==
    /\ rev = 3
    /\ provider_args \in [Units -> ProxyArgs]
    /\ provider_args[1] = ProxyDefaults
    /\ requirer_args \in [Units -> UrlsArgs]
    /\ \A u \in Units : requirer_args[u] = requirer_args[1]
    /\ leader = [a \in Apps |-> 1]
    /\ relations = {}
    /\ data = [r \in RelIds |-> [a \in Apps |-> << >>]]
    /\ last = NoRun
    /\ handled = {}
    /\ call = NoCall

LeadershipNext ==
    \/ \E app \in Apps, u \in Units : LeaderChange(app, u) /\ UNCHANGED <<handled, call>>
    \/ \E r \in RelIds : RelationCreated(r) /\ UNCHANGED <<handled, call>>
    \/ \E r \in RelIds, app \in Apps : PeerSetsData(r, app) /\ UNCHANGED <<handled, call>>
    \/ \E u \in Units, t \in Triggers, r \in RelIds \cup {0} :
          AuthProvider_set_auth_config_in_relation_data(u, t, r) /\ UNCHANGED <<handled, call>>
    \/ \E u \in Units, t \in Triggers, r \in RelIds \cup {0} :
          AuthProvider_get_urls_from_relation_data(u, t, r) /\ UNCHANGED <<handled, call>>
    \/ \E u \in Units, t \in Triggers, r \in RelIds \cup {0} :
          AuthRequirer_set_urls_in_relation_data(u, t, r) /\ UNCHANGED <<handled, call>>
    \/ \E u \in Units, t \in Triggers, r \in RelIds \cup {0} :
          AuthRequirer_get_auth_config_from_relation_data(u, t, r) /\ UNCHANGED <<handled, call>>

Leadership == LeadershipInit /\ [][LeadershipNext]_vars

(***************************************************************************)
(* The tester charms: the provider tester (GrafanaAuthProxyProvider with    *)
(* its defaults) related to a charm carrying a revision 3 AuthRequirer.     *)
(* Every unit of both applications handles every event the library         *)
(* observes, leadership moves, and nothing but the library writes the       *)
(* databags.                                                                *)
(***************************************************************************)
TestersInit ==
    /\ rev = 3
    /\ provider_args = [u \in Units |-> ProxyDefaults]
    /\ requirer_args \in [Units -> UrlsArgs]
    /\ \A u \in Units : requirer_args[u] = requirer_args[1]
    /\ leader \in [Apps -> Units]
    /\ relations = {}
    /\ data = [r \in RelIds |-> [a \in Apps |-> << >>]]
    /\ last = NoRun
    /\ handled = {}
    /\ call = NoCall

TestersNext ==
    \/ \E app \in Apps, u \in Units : LeaderChange(app, u) /\ UNCHANGED <<handled, call>>
    \/ \E r \in RelIds : RelationCreated(r) /\ UNCHANGED <<handled, call>>
    \/ \E u \in Units, t \in Triggers, r \in RelIds \cup {0} :
          AuthProvider_set_auth_config_in_relation_data(u, t, r) /\ UNCHANGED <<handled, call>>
    \/ \E u \in Units, t \in Triggers, r \in RelIds \cup {0} :
          AuthProvider_get_urls_from_relation_data(u, t, r) /\ UNCHANGED <<handled, call>>
    \/ \E u \in Units, t \in Triggers, r \in RelIds \cup {0} :
          AuthRequirer_set_urls_in_relation_data(u, t, r) /\ UNCHANGED <<handled, call>>
    \/ \E u \in Units, t \in Triggers, r \in RelIds \cup {0} :
          AuthRequirer_get_auth_config_from_relation_data(u, t, r) /\ UNCHANGED <<handled, call>>

Testers == TestersInit /\ [][TestersNext]_vars

(***************************************************************************)
(* The library's schemas, builders and constructors, and the constructors   *)
(* of the two tester charms, applied on their own: a call starts with its   *)
(* arguments and ends with what it returned or raised.                      *)
(***************************************************************************)
SchemaNamed(name) ==
    CASE name = "PROVIDER_JSON_SCHEMA" -> PROVIDER_JSON_SCHEMA
      [] name = "AUTH_PROXY_PROVIDER_JSON_SCHEMA" -> AUTH_PROXY_PROVIDER_JSON_SCHEMA
      [] name = "REQUIRER_JSON_SCHEMA_v1" -> REQUIRER_JSON_SCHEMA_v1
      [] name = "REQUIRER_JSON_SCHEMA_v3" -> REQUIRER_JSON_SCHEMA_v3

SchemaNames ==
    {"PROVIDER_JSON_SCHEMA", "AUTH_PROXY_PROVIDER_JSON_SCHEMA",
     "REQUIRER_JSON_SCHEMA_v1", "REQUIRER_JSON_SCHEMA_v3"}

\* what an application databag may hold under url and urls
CallbackValues ==
    { EXAMPLE_URL, Str(""), List(<<EXAMPLE_URL>>), List(<< >>), Int_(5) }

\* the application databags of a requirer: any of url and urls, with any value
RequirerBags ==
    { Dict(f) : f \in UNION { [K -> CallbackValues] : K \in SUBSET {"url", "urls"} } }

\* the application databags of a provider: an auth document, or none
ProviderBags ==
    { Dict("auth" :> doc) : doc \in PeerAuthDocs }
    \cup { Dict("auth" :> Dict("proxy" :> Dict(PROXY_OPTIONS)
                               @@ "ldap" :> Dict(PROXY_OPTIONS))),
           Dict("auth" :> Dict(<< >>)),
           Dict("auth" :> Str("proxy")) }

\* the constructor arguments of a revision 1 provider, with any auth_type
BuildArgs ==
    { [auth_type |-> t, kwargs |-> a.kwargs] : t \in {"proxy", "ldap"}, a \in ProvidesArgs }

\* the containers a charm's metadata may declare: none, one, several
ContainerLists == { << >>, <<"workload">>, <<"workload", "side-car">> }

\* AuthProviderCharmEvents and AuthRequirerCharmEvents: the events declared on `on`
AuthProviderCharmEvents == {"urls_available"}
AuthRequirerCharmEvents == {"auth_conf_available"}

\* what a constructor leaves behind: the exception it raised, if any, and the
\* observations made, each an event and the method observing it
Constructed(raised, observed) == [raised |-> raised, observed |-> observed]

\* AuthProvider.__init__ on a charm declaring `containers`
AuthProvider_init(containers) ==
    IF Len(containers) = 0
    THEN \* list(self._charm.meta.containers.values())[0]
         Constructed("IndexError", {})
    ELSE Constructed("",
            (IF Len(containers) = 1
             THEN { <<"pebble_ready", "_get_urls_from_relation_data">> }
             ELSE {})
            \cup { <<"relation_joined", "_set_auth_config_in_relation_data">>,
                   <<"leader_elected", "_set_auth_config_in_relation_data">>,
                   <<"relation_changed", "_get_urls_from_relation_data">> })

\* AuthRequirer.__init__ on a charm declaring `containers`
AuthRequirer_init(containers) ==
    IF Len(containers) = 0
    THEN \* list(self._charm.meta.containers.values())[0]
         Constructed("IndexError", {})
    ELSE Constructed("",
            (IF Len(containers) = 1
             THEN { <<"pebble_ready", "_get_auth_config_from_relation_data">> }
             ELSE {})
            \cup { <<"relation_changed", "_get_auth_config_from_relation_data">>,
                   <<"relation_joined", "_set_urls_in_relation_data">>,
                   <<"leader_elected", "_set_urls_in_relation_data">> })

\* framework.observe(obj.on.<event>, method): the attribute lookup on `on` raises
\* AttributeError for an event that `on` does not declare
Observe(built, declared, event, method) ==
    IF built.raised # ""
    THEN built
    ELSE IF event \notin declared
         THEN Constructed("AttributeError", built.observed)
         ELSE Constructed("", built.observed \cup { <<event, method>> })

\* AuthProviderTesterCharm.__init__
AuthProviderTesterCharm_init ==
    Observe(AuthProvider_init(<<"auth-provider-tester">>), AuthProviderCharmEvents,
            "urls_available", "_on_urls_available")

\* AuthRequirerTesterCharm.__init__
AuthRequirerTesterCharm_init ==
    Observe(AuthRequirer_init(<<"auth-requirer-tester">>), AuthRequirerCharmEvents,
            "auth_config_available", "_on_auth_config_available")

\* AuthProviderTesterCharm._on_urls_available(event)
AuthProviderTesterCharm_on_urls_available(event) ==
    IF ~Truthy(event.kwargs.urls)
    THEN [status |-> "WaitingStatus", deferred |-> TRUE, urls |-> None]
    ELSE [status |-> "ActiveStatus", deferred |-> FALSE, urls |-> event.kwargs.urls]

\* AuthRequirerTesterCharm._on_auth_config_available(event)
AuthRequirerTesterCharm_on_auth_config_available(event) ==
    IF ~Truthy(event.kwargs.auth)
    THEN [status |-> "WaitingStatus", deferred |-> TRUE, auth |-> None]
    ELSE [status |-> "ActiveStatus", deferred |-> FALSE, auth |-> event.kwargs.auth]

\* a call that has not been applied yet
Pending(fn, args) ==
    [fn |-> fn, done |-> FALSE, args |-> args, raised |-> "", result |-> None]

\* the call ends: it returned `result`
Returned(result) == call' = [call EXCEPT !.done = TRUE, !.result = result]

\* the call ends as the constructor did
Built(built) ==
    call' = [call EXCEPT !.done = TRUE, !.raised = built.raised, !.result = built.observed]

CallsInit ==
    /\ rev = 3
    /\ provider_args = [u \in Units |-> ProxyDefaults]
    /\ requirer_args = [u \in Units |-> List(<<EXAMPLE_URL>>)]
    /\ leader = [a \in Apps |-> 1]
    /\ relations = {}
    /\ data = [r \in RelIds |-> [a \in Apps |-> << >>]]
    /\ last = NoRun
    /\ handled = {}
    /\ \/ call \in { Pending("validate", [instance |-> ApplicationData(bag), schema |-> n]) :
                        bag \in RequirerBags \cup ProviderBags, n \in SchemaNames }
       \/ call \in { Pending("_build_conf_dict", a) : a \in BuildArgs }
       \/ call \in { Pending("GrafanaAuthProxyProvider.__init__", a) : a \in ProxyArgs }
       \/ call \in { Pending("AuthProvider.__init__", [containers |-> c]) :
                        c \in ContainerLists }
       \/ call \in { Pending("AuthRequirer.__init__", [containers |-> c]) :
                        c \in ContainerLists }
       \/ call = Pending("AuthProviderTesterCharm.__init__", << >>)
       \/ call = Pending("AuthRequirerTesterCharm.__init__", << >>)

System == UNCHANGED <<rev, provider_args, requirer_args, leader, relations, data, last,
                      handled>>

\* validate(instance, schema), as the library's callers wrap it: True when it
\* returns, False when it raises
Apply_validate ==
    /\ call.fn = "validate" /\ ~call.done
    /\ Returned(Bool(validate(call.args.instance, SchemaNamed(call.args.schema))))
    /\ System

Apply_build_conf_dict ==
    /\ call.fn = "_build_conf_dict" /\ ~call.done
    /\ Returned(build_conf_dict(call.args.auth_type, call.args.kwargs))
    /\ System

Apply_GrafanaAuthProxyProvider_init ==
    /\ call.fn = "GrafanaAuthProxyProvider.__init__" /\ ~call.done
    /\ Returned(GrafanaAuthProxyProvider_init(call.args))
    /\ System

Apply_AuthProvider_init ==
    /\ call.fn = "AuthProvider.__init__" /\ ~call.done
    /\ Built(AuthProvider_init(call.args.containers))
    /\ System

Apply_AuthRequirer_init ==
    /\ call.fn = "AuthRequirer.__init__" /\ ~call.done
    /\ Built(AuthRequirer_init(call.args.containers))
    /\ System

Apply_AuthProviderTesterCharm_init ==
    /\ call.fn = "AuthProviderTesterCharm.__init__" /\ ~call.done
    /\ Built(AuthProviderTesterCharm_init)
    /\ System

Apply_AuthRequirerTesterCharm_init ==
    /\ call.fn = "AuthRequirerTesterCharm.__init__" /\ ~call.done
    /\ Built(AuthRequirerTesterCharm_init)
    /\ System

CallsNext ==
    \/ Apply_validate
    \/ Apply_build_conf_dict
    \/ Apply_GrafanaAuthProxyProvider_init
    \/ Apply_AuthProvider_init
    \/ Apply_AuthRequirer_init
    \/ Apply_AuthProviderTesterCharm_init
    \/ Apply_AuthRequirerTesterCharm_init

Calls == CallsInit /\ [][CallsNext]_vars

(***************************************************************************)
(* The claims.                                                             *)
(***************************************************************************)
PublishHandlers ==
    {"set_auth_config_in_relation_data", "set_grafana_url_in_relation_data",
     "set_urls_in_relation_data"}

ReadHandlers ==
    {"on_grafana_auth_relation_changed", "get_urls_from_relation_data",
     "get_auth_config_from_relation_data"}

\* the latest step ran a handler of `handlers` of application `app` on its leader unit
LeaderRan(handlers, app) ==
    /\ last.handler \in handlers
    /\ last.app = app
    /\ leader[app] = last.unit

\* the one relation there is (revision 3 looks its relation up by name)
TheRelation == CHOOSE r \in relations : TRUE

(* C1: a publish handler (either revision, either side) run by a unit that  *)
(* is not the leader leaves every databag of every relation as it was; so   *)
(* whenever a publish handler changes a databag, the unit running it is the *)
(* leader at that step.                                                     *)
C1_NonLeaderPublishWritesNothing ==
    [][ last'.handler \in PublishHandlers =>
          /\ leader[last'.app] # last'.unit => data' = data
          /\ data' # data => leader[last'.app] = last'.unit ]_vars

\* a non-leader unit has run a publish handler while a databag held something
C1_Witness ==
    /\ last.handler \in PublishHandlers
    /\ leader[last.app] # last.unit
    /\ \E r \in relations, a \in Apps : DOMAIN data[r][a] # {}

C2_OptionKeys(a) ==
    {"enabled", "header_name", "header_property", "auto_sign_up"}
    \cup {k \in {"sync_ttl", "headers_encoded", "enable_login_token"} : a[k] # None}
    \cup {k \in {"whitelist", "headers"} : a[k] # None /\ a[k] # List(<< >>)}

C2_Document(a) ==
    Dict("proxy" :> Dict([k \in C2_OptionKeys(a) |->
                            IF k = "enabled" THEN Bool(TRUE) ELSE a[k]]))

(* C2: revision 3: after a leader GrafanaAuthProxyProvider has handled      *)
(* relation_joined or leader_elected with the relation in place, the        *)
(* provider's databag holds under `auth` the JSON encoding of {"proxy":     *)
(* options}, options being enabled=true, the three arguments always given,  *)
(* sync_ttl/headers_encoded/enable_login_token iff not None and             *)
(* whitelist/headers iff not None and not empty; decoding the value gives   *)
(* that document back.                                                      *)
C2_LeaderPublishesProxyConfig ==
    (rev = 3 /\ LeaderRan({"set_auth_config_in_relation_data"}, "provider")
       /\ Cardinality(relations) = 1)
    => LET bag == data[TheRelation]["provider"]
           a == provider_args[last.unit]
       IN  /\ last.raised = ""
           /\ "auth" \in DOMAIN bag
           /\ bag["auth"] = json_dumps(C2_Document(a))
           /\ ~JSONDecodeError(bag["auth"])
           /\ LET doc == json_loads(bag["auth"])
              IN  /\ doc.ty = "dict"
                  /\ DOMAIN doc.v = {"proxy"}
                  /\ doc.v["proxy"].ty = "dict"
                  /\ DOMAIN doc.v["proxy"].v = C2_OptionKeys(a)
                  /\ doc.v["proxy"].v["enabled"] = Bool(TRUE)
                  /\ \A k \in C2_OptionKeys(a) \ {"enabled"} : doc.v["proxy"].v[k] = a[k]

\* a leader provider constructed with an empty whitelist and empty headers has published
C2_Witness ==
    /\ rev = 3
    /\ LeaderRan({"set_auth_config_in_relation_data"}, "provider")
    /\ Cardinality(relations) = 1
    /\ provider_args[last.unit].whitelist = List(<< >>)
    /\ "auth" \in DOMAIN data[TheRelation]["provider"]

C3_UrlLists ==
    { List(<< >>), List(<<EXAMPLE_URL>>),
      List(<<EXAMPLE_URL, Str("https://other.example.com/")>>) }

(* C3: revision 3: when a leader provider unit has handled relation_changed *)
(* or pebble_ready while the requirer's databag held under `urls` the JSON  *)
(* encoding of a list of URL strings, the handler emitted exactly one       *)
(* urls_available event, with that list and the relation's id.              *)
C3_LeaderEmitsUrlsAvailable ==
    (rev = 3 /\ LeaderRan({"get_urls_from_relation_data"}, "provider")
       /\ Cardinality(relations) = 1)
    => \A urls \in C3_UrlLists :
          BagGet(data[TheRelation]["requirer"], "urls") = json_dumps(urls)
          => /\ last.raised = ""
             /\ last.emitted =
                  << [event_type |-> "UrlsAvailableEvent",
                      kwargs |-> [urls |-> urls, relation_id |-> Int_(TheRelation)]] >>

\* a leader provider has read a list of two URLs and emitted
C3_Witness ==
    /\ rev = 3
    /\ LeaderRan({"get_urls_from_relation_data"}, "provider")
    /\ Cardinality(relations) = 1
    /\ BagGet(data[TheRelation]["requirer"], "urls")
         = json_dumps(List(<<EXAMPLE_URL, Str("https://other.example.com/")>>))
    /\ Len(last.emitted) = 1

(* C4: revision 3: when a leader requirer unit has handled relation_changed *)
(* or pebble_ready while the provider's databag held under `auth` the JSON  *)
(* encoding of an AuthConfig that passes the provider schema, the handler   *)
(* emitted exactly one auth_conf_available event, with the decoded document *)
(* and the relation's id.                                                   *)
C4_LeaderEmitsAuthConfAvailable ==
    (rev = 3 /\ LeaderRan({"get_auth_config_from_relation_data"}, "requirer")
       /\ Cardinality(relations) = 1)
    => \A doc \in PeerAuthDocs \cup {auth_config(u) : u \in Units} :
          (/\ BagGet(data[TheRelation]["provider"], "auth") = json_dumps(doc)
           /\ validate_auth_config_json_schema(doc))
          => /\ last.raised = ""
             /\ last.emitted =
                  << [event_type |-> "AuthConfAvailableEvent",
                      kwargs |-> [auth |-> doc, relation_id |-> Int_(TheRelation)]] >>

\* a leader requirer has read the configuration a provider of this library published
C4_Witness ==
    /\ rev = 3
    /\ LeaderRan({"get_auth_config_from_relation_data"}, "requirer")
    /\ Cardinality(relations) = 1
    /\ \E u \in Units :
          /\ BagGet(data[TheRelation]["provider"], "auth") = json_dumps(auth_config(u))
          /\ validate_auth_config_json_schema(auth_config(u))
    /\ Len(last.emitted) = 1

\* the relation whose databags the latest handler run worked on: revision 1 takes
\* the event's, revision 3 the one that carries the name
RunRelation == IF rev = 1 THEN last.rel ELSE TheRelation

\* the handler finds its relation: revision 1 is handed it by the event, revision 3
\* resolves it by name, which takes that exactly one relation carries the name
Resolvable == rev = 1 \/ Cardinality(relations) = 1

\* a read handler of `app` has run on the leader, on a relation it could resolve
LeaderRead(app) ==
    /\ LeaderRan(ReadHandlers, app)
    /\ Resolvable

\* the provider document passes the provider schema of the revision
PassesProviderSchema(doc) ==
    validate(ApplicationData(Dict("auth" :> doc)),
             IF rev = 1 THEN PROVIDER_JSON_SCHEMA ELSE AUTH_PROXY_PROVIDER_JSON_SCHEMA)

\* the provider's databag holds the encoding of the document
ProviderHolds(doc) ==
    BagGet(data[RunRelation]["provider"], AuthKey(rev)) = json_dumps(AuthPayload(rev, doc))

C5_LacksHeader(doc) ==
    /\ "proxy" \in DOMAIN doc.v
    /\ doc.v["proxy"].ty = "dict"
    /\ ~({"header_name", "header_property"} \subseteq DOMAIN doc.v["proxy"].v)

(* C5: whenever the requirer's relation-changed handler (either revision)   *)
(* has run while the provider's databag held a payload whose proxy options  *)
(* lack header_name or header_property, the payload fails the provider      *)
(* schema and the handler has emitted no event, leader or not.              *)
C5_MissingHeaderNeverAnnounced ==
    (last.handler \in ReadHandlers /\ last.app = "requirer"
       /\ last.trigger = "relation_changed" /\ Resolvable)
    => \A doc \in PeerAuthDocs :
          (C5_LacksHeader(doc) /\ ProviderHolds(doc))
          => ~PassesProviderSchema(doc) /\ last.emitted = << >>

(* C6: whenever the requirer's relation-changed handler (either revision)   *)
(* has run while the provider's auth value held only an unrecognised mode   *)
(* key, whatever the options under it, the handler has emitted no event.    *)
C6_UnknownModeNeverAnnounced ==
    (last.handler \in ReadHandlers /\ last.app = "requirer"
       /\ last.trigger = "relation_changed" /\ Resolvable)
    => \A doc \in PeerAuthDocs :
          ("proxy" \notin DOMAIN doc.v /\ ProviderHolds(doc))
          => last.emitted = << >>

\* the value a handler works on: the decoded document, or the raw string kept
C7_Value(text) == IF JSONDecodeError(text) THEN Str(text.doc.v) ELSE json_loads(text)

\* the callback document each revision's requirer schema describes: {"url": string}
\* in revision 1, a list of strings in revision 3
C7_SatisfiesRequirerSchema(value) ==
    IF rev = 1
    THEN value.ty = "dict" /\ "url" \in DOMAIN value.v /\ value.v["url"].ty = "str"
    ELSE value.ty = "list" /\ \A i \in DOMAIN value.v : value.v[i].ty = "str"

(* C7: whenever a leader provider unit has handled relation_changed while   *)
(* the requirer's callback value (grafana_url, urls) was present but did    *)
(* not satisfy the requirer schema, the handler emitted nothing and ended   *)
(* without an error.                                                        *)
C7_InvalidCallbackIgnored ==
    (LeaderRead("provider") /\ last.trigger = "relation_changed")
    => LET text == BagGet(data[RunRelation]["requirer"], UrlKey(rev))
       IN  (text # EmptyText /\ ~C7_SatisfiesRequirerSchema(C7_Value(text)))
           => last.emitted = << >> /\ last.raised = ""

(* C8: a read handler (relation_changed, pebble_ready) of either side and   *)
(* either revision, run by a unit that is not the leader, emits no event    *)
(* and ends normally, whatever the peer's databag holds.                    *)
C8_NonLeaderReadEmitsNothing ==
    (last.handler \in ReadHandlers /\ leader[last.app] # last.unit)
    => last.emitted = << >> /\ last.raised = ""

\* a non-leader unit has run a read handler over a databag holding a valid document
C8_Witness ==
    /\ last.handler \in ReadHandlers
    /\ leader[last.app] # last.unit
    /\ Resolvable
    /\ IF last.app = "requirer"
       THEN \E doc \in PeerAuthDocs : PassesProviderSchema(doc) /\ ProviderHolds(doc)
       ELSE LET text == BagGet(data[RunRelation]["requirer"], UrlKey(rev))
            IN  text # EmptyText /\ C7_SatisfiesRequirerSchema(C7_Value(text))

\* the key the read handler of `app` looks up in the peer's databag
ExpectedKey(app) == IF app = "provider" THEN UrlKey(rev) ELSE AuthKey(rev)

(* C9: when a leader unit handles relation_changed and the peer's databag   *)
(* lacks the expected key or holds the empty string under it, the handler   *)
(* emits no event, leaves every databag as it was and ends normally.        *)
C9_AbsentValueIgnored ==
    [][ (/\ last'.handler \in ReadHandlers
         /\ last'.trigger = "relation_changed"
         /\ leader[last'.app] = last'.unit
         /\ Resolvable
         /\ BagGet(data[IF rev = 1 THEN last'.rel ELSE TheRelation][RemoteApp(last'.app)],
                   ExpectedKey(last'.app)) = EmptyText)
        => last'.emitted = << >> /\ last'.raised = "" /\ data' = data ]_vars

\* a leader has run a read handler over a peer databag holding the empty string
C9_Witness ==
    /\ LeaderRead(last.app)
    /\ last.trigger = "relation_changed"
    /\ ExpectedKey(last.app) \in DOMAIN data[RunRelation][RemoteApp(last.app)]
    /\ data[RunRelation][RemoteApp(last.app)][ExpectedKey(last.app)] = EmptyText

(* C10: revision 1: whenever a leader's relation-changed handler has found  *)
(* the peer's value valid, the embedding charm has received one event with  *)
(* the validated value and the id of the relation that changed.             *)
C10_Rev1EventCarriesRelationId ==
    (rev = 1 /\ LeaderRan(ReadHandlers, last.app))
    => LET value == DictGet(load_relation_data(data[last.rel][RemoteApp(last.app)]),
                            ExpectedKey(last.app))
           valid == IF last.app = "provider"
                    THEN GrafanaAuthProvides_app_relation_data_is_valid(value)
                    ELSE GrafanaAuthRequires_app_relation_data_is_valid(value)
       IN  (Truthy(value) /\ valid)
           => /\ last.raised = ""
              /\ Len(last.emitted) = 1
              /\ last.emitted[1].kwargs =
                   ((IF last.app = "provider" THEN "grafana_url" ELSE "auth_conf") :> value)
                   @@ ("relation_id" :> Int_(last.rel))

\* the payload keyword of the event each side's read handler emits
PayloadKey(app) ==
    IF app = "provider" THEN (IF rev = 1 THEN "grafana_url" ELSE "urls")
    ELSE (IF rev = 1 THEN "auth_conf" ELSE "auth")

\* what the leader of `app` is configured to publish
Published(app) ==
    IF app = "provider"
    THEN (IF rev = 1 THEN auth_conf(leader["provider"]) ELSE auth_config(leader["provider"]))
    ELSE (IF rev = 1 THEN grafana_url_conf(leader["requirer"])
          ELSE requirer_args[leader["requirer"]])

\* the requirer's leader is configured with a URL
UrlConfigured ==
    IF rev = 1 THEN requirer_args[leader["requirer"]] # Str("")
    ELSE Truthy(requirer_args[leader["requirer"]])

(* C11: one leader provider and one leader requirer of the same revision    *)
(* share a relation; once both have handled relation_joined, the requirer's *)
(* relation_changed emits an event carrying the provider's configuration    *)
(* and the provider's relation_changed emits one carrying the requirer's    *)
(* URL(s).                                                                  *)
C11_HandshakeCompletes ==
    (/\ handled = Apps
     /\ UrlConfigured
     /\ last.handler \in ReadHandlers
     /\ last.trigger = "relation_changed")
    => /\ Len(last.emitted) = 1
       /\ PayloadKey(last.app) \in DOMAIN last.emitted[1].kwargs
       /\ last.emitted[1].kwargs[PayloadKey(last.app)] = Published(RemoteApp(last.app))

\* the same, of revision 3 alone
C11_Rev3Handshake == rev = 3 => C11_HandshakeCompletes

\* the text the provider's current leader is configured to publish (revision 3)
LeaderAuthText == json_dumps(auth_config(leader["provider"]))

(* C12: revision 3, one relation: when the provider's leader, whichever     *)
(* unit leadership has moved to, handles leader_elected or relation_joined, *)
(* the provider's databag holds that leader's configuration under `auth`;   *)
(* and no handler of the library, run on any unit, changes it from there.   *)
C12_NewLeaderConfigConverges ==
    [][ (rev = 3 /\ last'.handler # "none" /\ Cardinality(relations) = 1)
        => LET held == BagGet(data[TheRelation]["provider"], "auth")
               held_after == BagGet(data'[TheRelation]["provider"], "auth")
           IN  /\ (/\ last'.handler = "set_auth_config_in_relation_data"
                    /\ last'.unit = leader["provider"])
                   => held_after = LeaderAuthText
               /\ held = LeaderAuthText => held_after = LeaderAuthText ]_vars

\* leadership has moved to unit 2, whose configuration is not unit 1's, and unit 2
\* has published on leader_elected
C12_Witness ==
    /\ rev = 3
    /\ Cardinality(relations) = 1
    /\ leader["provider"] = 2
    /\ provider_args[2] # provider_args[1]
    /\ LeaderRan({"set_auth_config_in_relation_data"}, "provider")
    /\ last.trigger = "leader_elected"
    /\ last.unit = 2
    /\ BagGet(data[TheRelation]["provider"], "auth") = LeaderAuthText

(* C13: revision 1: when a leader GrafanaAuthProvides unit handles          *)
(* relation_joined and the databag it writes to already holds a value under *)
(* `grafana_auth`, the handler leaves that value as it is.                  *)
C13_Rev1NeverOverwrites ==
    [][ (/\ rev = 1
         /\ last'.handler = "set_auth_config_in_relation_data"
         /\ "grafana_auth" \in DOMAIN data[last'.rel][RemoteApp("provider")])
        => data'[last'.rel][RemoteApp("provider")]["grafana_auth"]
             = data[last'.rel][RemoteApp("provider")]["grafana_auth"] ]_vars

\* the same over the values this library writes itself
C13_Rev1KeepsOwnValue ==
    [][ (/\ rev = 1
         /\ last'.handler = "set_auth_config_in_relation_data"
         /\ "grafana_auth" \in DOMAIN data[last'.rel][RemoteApp("provider")]
         /\ Truthy(DictGet(load_relation_data(data[last'.rel][RemoteApp("provider")]),
                            "grafana_auth")))
        => data' = data ]_vars

(* C14: in each revision, once a relation exists and a unit of the provider *)
(* application leads, the provider's configuration is eventually held in    *)
(* the provider application's own databag of that relation, the host        *)
(* delivering relation_joined and leader_elected fairly.                    *)
C14_AuthConfigEventuallyPublished ==
    \A r \in RelIds :
        [](r \in relations
           => <>(\/ r \notin relations
                 \/ BagGet(data[r]["provider"], AuthKey(rev)) =
                      json_dumps(Published("provider"))))

\* the same, of revision 3 alone
C14_Rev3EventuallyPublished ==
    \A r \in RelIds :
        [](rev = 3 /\ r \in relations
           => <>(\/ r \notin relations
                 \/ BagGet(data[r]["provider"], AuthKey(rev)) =
                      json_dumps(Published("provider"))))

\* the URL value unit u of the requirer is configured with is not empty
C15_UrlNonEmpty(u) ==
    IF rev = 1 THEN requirer_args[u] # Str("") ELSE Truthy(requirer_args[u])

\* what unit u of the requirer would publish passes the requirer schema of its revision
C15_UrlValid(u) ==
    IF rev = 1
    THEN validate(ApplicationData(grafana_url_conf(u)), REQUIRER_JSON_SCHEMA_v1)
    ELSE validate(ApplicationData(Dict("urls" :> requirer_args[u])), REQUIRER_JSON_SCHEMA_v3)

(* C15: in each revision the requirer's publish handler (relation_joined,   *)
(* leader_elected) changes a databag only when the URL value it is          *)
(* configured with is non-empty and passes the requirer schema; with an     *)
(* empty or invalid value it leaves every databag as it was.                *)
C15_RequirerValidatesBeforeWriting ==
    [][ (last'.handler \in PublishHandlers /\ last'.app = "requirer")
        => (data' # data
            => C15_UrlNonEmpty(last'.unit) /\ C15_UrlValid(last'.unit)) ]_vars

\* the same, of revision 3 alone
C15_Rev3ValidatesBeforeWriting ==
    [][ (rev = 3 /\ last'.handler \in PublishHandlers /\ last'.app = "requirer")
        => (data' # data
            => C15_UrlNonEmpty(last'.unit) /\ C15_UrlValid(last'.unit)) ]_vars

(* C16: no handler changes the databag of the other application: a handler  *)
(* of the provider leaves the requirer's databag of every relation as it    *)
(* was, and a handler of the requirer the provider's.                       *)
C16_WritesOwnNamespaceOnly ==
    [][ last'.handler # "none"
        => \A r \in DOMAIN data :
              data'[r][RemoteApp(last'.app)] = data[r][RemoteApp(last'.app)] ]_vars

\* the same, of revision 3 alone
C16_Rev3WritesOwnNamespaceOnly ==
    [][ (rev = 3 /\ last'.handler # "none")
        => \A r \in DOMAIN data :
              data'[r][RemoteApp(last'.app)] = data[r][RemoteApp(last'.app)] ]_vars

\* the key and the text the leader of `app` publishes
PublishKey(app) == IF app = "provider" THEN AuthKey(rev) ELSE UrlKey(rev)
PublishText(app) == json_dumps(Published(app))

(* C17: with several relations of the same name at once, each is handled on *)
(* its own: a leader's publish on relation_joined of relation r ends        *)
(* without error with the published value in r's databags, a leader's       *)
(* relation_changed of r over a valid peer value ends without error having  *)
(* emitted one event tagged with r's id, and neither changes the databags   *)
(* of another relation.  Stated of revision 3, whose handlers look their    *)
(* relation up by name.                                                     *)
C17_RelationsHandledIndependently ==
    [][ (/\ rev = 3
         /\ last'.handler # "none"
         /\ last'.trigger \in {"relation_joined", "relation_changed"}
         /\ last'.unit = leader[last'.app]
         /\ Cardinality(relations) > 1)
        => LET r == last'.rel
               app == last'.app
           IN  /\ last'.raised = ""
               /\ \A other \in relations \ {r} : data'[other] = data[other]
               /\ last'.handler \in PublishHandlers
                  => \E a \in Apps : BagGet(data'[r][a], PublishKey(app)) = PublishText(app)
               /\ (/\ last'.handler \in ReadHandlers
                   /\ BagGet(data[r][RemoteApp(app)], PublishKey(RemoteApp(app)))
                        = ValidPeerText(RemoteApp(app)))
                  => /\ Len(last'.emitted) = 1
                     /\ "relation_id" \in DOMAIN last'.emitted[1].kwargs
                     /\ last'.emitted[1].kwargs["relation_id"] = Int_(r) ]_vars

\* what the peer's databag holds under the key the latest read handler looks up
PeerText == BagGet(data[RunRelation][RemoteApp(last.app)], ExpectedKey(last.app))

(* C18: whenever a leader's read handler, of either revision, has found     *)
(* under its key a value that is not valid JSON, it has kept the value as   *)
(* the raw string and gone on: no decoding error has left the handler.      *)
C18_NonJsonValueKeptRaw ==
    (LeaderRead(last.app) /\ PeerText # EmptyText /\ JSONDecodeError(PeerText))
    => last.raised = ""

\* the same, of revision 1 alone, where the raw string then fails the schema
C18_Rev1NonJsonValueKeptRaw ==
    (rev = 1 /\ LeaderRead(last.app) /\ PeerText # EmptyText /\ JSONDecodeError(PeerText))
    => last.raised = "" /\ last.emitted = << >>

(* C19: no handler ends in an error: whoever leads and whatever the peer's  *)
(* databag holds (nothing, the empty string, no JSON, an invalid document,  *)
(* a valid one), every run of a handler that reads it, of either side and   *)
(* either revision, returns normally, with or without an event.             *)
C19_NoHandlerRaises == last.handler \in ReadHandlers => last.raised = ""

\* the modes of the configuration the provider's databag of relation r holds
C20_HeldModes(r) ==
    LET held == DictGet(load_relation_data(data[r]["provider"]), "grafana_auth")
    IN  IF held.ty = "dict" /\ "auth" \in DOMAIN held.v /\ held.v["auth"].ty = "dict"
        THEN DOMAIN held.v["auth"].v
        ELSE {}

(* C20: revision 1, which declares the revoked event: when relation r is    *)
(* torn down (relation_departed) while the provider's databag holds a valid *)
(* configuration, the requirer's leader emits one AuthConfRevokedEvent      *)
(* whose revoked modes are the mode keys of that configuration and whose    *)
(* relation id is r's.                                                      *)
C20_DepartedRevokesConfig ==
    [][ (/\ rev = 1
         /\ last'.trigger = "relation_departed"
         /\ last'.app = "requirer"
         /\ last'.unit = leader["requirer"]
         /\ GrafanaAuthRequires_app_relation_data_is_valid(
                DictGet(load_relation_data(data[last'.rel]["provider"]), "grafana_auth")))
        => /\ Len(last'.emitted) = 1
           /\ last'.emitted[1].event_type = "AuthConfRevokedEvent"
           /\ last'.emitted[1].kwargs =
                [revoked_auth_modes |-> C20_HeldModes(last'.rel),
                 relation_id |-> Int_(last'.rel)] ]_vars

\* the revision 1 shape: {"url": u}, u a URL
C21_Rev1Shape(bag) ==
    /\ DOMAIN bag.v = {"url"}
    /\ bag.v["url"].ty = "str" /\ Truthy(bag.v["url"])

\* the revision 3 shape: {"urls": [u]}, u a URL
C21_Rev3Shape(bag) ==
    /\ DOMAIN bag.v = {"urls"}
    /\ bag.v["urls"].ty = "list" /\ Len(bag.v["urls"].v) = 1
    /\ bag.v["urls"].v[1].ty = "str" /\ Truthy(bag.v["urls"].v[1])

(* C21: a single URL string in the revision 1 shape {"url": u} validates    *)
(* against the revision 1 REQUIRER_JSON_SCHEMA, a one-element list in the   *)
(* revision 3 shape {"urls": [u]} validates against the revision 3          *)
(* REQUIRER_JSON_SCHEMA, and neither shape validates against the schema of  *)
(* the other revision.                                                      *)
C21_RequirerShapesValidate ==
    (call.fn = "validate" /\ call.done) =>
        LET bag == call.args.instance.v["application-data"]
            schema == call.args.schema
        IN  /\ (C21_Rev1Shape(bag) /\ schema = "REQUIRER_JSON_SCHEMA_v1")
                  => call.result = Bool(TRUE)
            /\ (C21_Rev3Shape(bag) /\ schema = "REQUIRER_JSON_SCHEMA_v3")
                  => call.result = Bool(TRUE)
            /\ (C21_Rev1Shape(bag) /\ schema = "REQUIRER_JSON_SCHEMA_v3")
                  => call.result = Bool(FALSE)
            /\ (C21_Rev3Shape(bag) /\ schema = "REQUIRER_JSON_SCHEMA_v1")
                  => call.result = Bool(FALSE)

\* the revision 1 shape has been validated against the revision 3 schema
C21_Witness ==
    /\ call.fn = "validate" /\ call.done
    /\ C21_Rev1Shape(call.args.instance.v["application-data"])
    /\ call.args.schema = "REQUIRER_JSON_SCHEMA_v3"
    /\ call.result = Bool(FALSE)

(* C22: revision 3 provider: when the leader's authentication configuration *)
(* does not pass AUTH_PROXY_PROVIDER_JSON_SCHEMA validation (a header_name  *)
(* that is no string), _set_auth_config_in_relation_data does not set it in *)
(* the relation: `auth` in the provider's databag is left as it was.        *)
C22_InvalidConfigNotPublished ==
    [][ (/\ rev = 3
         /\ last'.handler = "set_auth_config_in_relation_data"
         /\ ~validate_auth_config_json_schema(auth_config(last'.unit)))
        => \A r \in DOMAIN data :
              BagGet(data'[r]["provider"], "auth") = BagGet(data[r]["provider"], "auth") ]_vars

\* a callback value as the revision at hand means it: a non-empty URL string in
\* revision 1, a non-empty list of strings in revision 3
C23_CallbackValue(value) ==
    IF rev = 1
    THEN value.ty = "str" /\ value.v # ""
    ELSE /\ value.ty = "list"
         /\ value.v # << >>
         /\ \A i \in DOMAIN value.v : value.v[i].ty = "str"

\* the callback value an emitted event carries
C23_Carried(event) ==
    IF rev = 1
    THEN IF event.kwargs.grafana_url.ty = "dict"
         THEN DictGet(event.kwargs.grafana_url, "url")
         ELSE event.kwargs.grafana_url
    ELSE event.kwargs.urls

\* every callback value a requirer writes is well-formed
C23_WrittenValuesWellFormed ==
    [][ (/\ last'.app = "requirer"
         /\ last'.handler \in PublishHandlers
         /\ data' # data)
        => C23_CallbackValue(requirer_args[last'.unit]) ]_vars

\* every callback value a provider passes on in an event is well-formed
C23_EmittedValuesWellFormed ==
    (last.app = "provider" /\ last.handler \in ReadHandlers)
    => \A i \in DOMAIN last.emitted : C23_CallbackValue(C23_Carried(last.emitted[i]))

(* C23: every callback value that a requirer writes into its namespace, and *)
(* every callback value that a provider passes on in its event, is          *)
(* non-empty and made only of strings: a URL string in revision 1, a list   *)
(* whose entries are all strings in revision 3.                             *)
C23_CallbackValuesWellFormed ==
    [][ /\ (/\ last'.app = "requirer"
            /\ last'.handler \in PublishHandlers
            /\ data' # data)
           => C23_CallbackValue(requirer_args[last'.unit])
        /\ (last'.app = "provider" /\ last'.handler \in ReadHandlers)
           => \A i \in DOMAIN last'.emitted :
                 C23_CallbackValue(C23_Carried(last'.emitted[i])) ]_vars

\* the authentication modes the provider schemas know
C24_RecognisedModes == {"proxy"}

\* an auth document with exactly one mode key, a recognised one
C24_OneRecognisedMode(doc) ==
    /\ doc.ty = "dict"
    /\ Cardinality(DOMAIN doc.v) = 1
    /\ DOMAIN doc.v \subseteq C24_RecognisedModes

\* every auth document a provider schema accepts has one recognised mode key
C24_AcceptedHaveOneMode ==
    (/\ call.fn = "validate" /\ call.done
     /\ call.args.schema \in {"PROVIDER_JSON_SCHEMA", "AUTH_PROXY_PROVIDER_JSON_SCHEMA"}
     /\ call.result = Bool(TRUE))
    => C24_OneRecognisedMode(call.args.instance.v["application-data"].v["auth"])

\* every configuration a provider builds has one recognised mode key
C24_BuiltHaveOneMode ==
    /\ (call.fn = "_build_conf_dict" /\ call.done)
          => C24_OneRecognisedMode(call.result.v["auth"])
    /\ (call.fn = "GrafanaAuthProxyProvider.__init__" /\ call.done)
          => C24_OneRecognisedMode(call.result)

(* C24: every auth document that provider schema validation accepts, and    *)
(* every configuration a provider builds to publish (revision 1             *)
(* _build_conf_dict for any auth_type, revision 3 GrafanaAuthProxyProvider),*)
(* contains exactly one mode key, and that key is a recognised mode, proxy. *)
C24_ExactlyOneRecognisedMode ==
    /\ (/\ call.fn = "validate" /\ call.done
        /\ call.args.schema \in {"PROVIDER_JSON_SCHEMA", "AUTH_PROXY_PROVIDER_JSON_SCHEMA"}
        /\ call.result = Bool(TRUE))
       => C24_OneRecognisedMode(call.args.instance.v["application-data"].v["auth"])
    /\ (call.fn = "_build_conf_dict" /\ call.done)
       => C24_OneRecognisedMode(call.result.v["auth"])
    /\ (call.fn = "GrafanaAuthProxyProvider.__init__" /\ call.done)
       => C24_OneRecognisedMode(call.result)

\* what revision 3 builds does have one recognised mode key
C24_Rev3BuildsOneMode ==
    (call.fn = "GrafanaAuthProxyProvider.__init__" /\ call.done)
    => C24_OneRecognisedMode(call.result)

\* the value an emitted callback event carries, as the handler decoded it
C25_Announced(event) ==
    IF rev = 1 THEN event.kwargs.grafana_url ELSE event.kwargs.urls

(* C25: on the provider side, each relation_changed handled by the leader   *)
(* while the peer's callback value is valid emits one callback event        *)
(* carrying the value present at that moment, and each one handled while    *)
(* the value is missing or invalid emits nothing; so the value last         *)
(* announced to the charm is the most recent valid value that was handled.  *)
C25_EachValidChangeAnnounced ==
    (LeaderRead("provider") /\ last.trigger = "relation_changed")
    => LET text == BagGet(data[RunRelation]["requirer"], UrlKey(rev))
           value == C7_Value(text)
       IN  IF text # EmptyText /\ C7_SatisfiesRequirerSchema(value)
           THEN /\ Len(last.emitted) = 1
                /\ C25_Announced(last.emitted[1]) = value
           ELSE last.emitted = << >>

\* revision 1 announces nothing at all, valid value or not
C25_Rev1AnnouncesNothing ==
    (rev = 1 /\ last.app = "provider" /\ last.handler \in ReadHandlers)
    => last.emitted = << >>

\* revision 3 announces a valid value, and the value it announces is the one present
C25_Rev3ValidAnnounced ==
    (rev = 3 /\ LeaderRead("provider"))
    => LET text == BagGet(data[RunRelation]["requirer"], UrlKey(rev))
           value == C7_Value(text)
       IN  /\ (text # EmptyText /\ C7_SatisfiesRequirerSchema(value))
                 => Len(last.emitted) = 1
           /\ \A i \in DOMAIN last.emitted : C25_Announced(last.emitted[i]) = value

(* C26: revision 3: a handler run on leader_elected or pebble_ready while   *)
(* no relation exists writes nothing, emits nothing and returns normally;   *)
(* and once the relation exists, the leader handling relation_joined        *)
(* publishes what it has to publish: the provider its valid configuration,  *)
(* the requirer its valid urls.                                             *)
C26_NoRelationNoEffectThenPublished ==
    [][ (rev = 3 /\ last'.handler # "none")
        => /\ (last'.trigger \in {"leader_elected", "pebble_ready"} /\ relations = {})
                 => /\ data' = data
                    /\ last'.emitted = << >>
                    /\ last'.raised = ""
           /\ (/\ last'.trigger = "relation_joined"
               /\ last'.is_leader
               /\ Cardinality(relations) = 1)
                 => IF last'.app = "provider"
                    THEN validate_auth_config_json_schema(auth_config(last'.unit))
                         => BagGet(data'[TheRelation]["provider"], "auth")
                               = json_dumps(auth_config(last'.unit))
                    ELSE (Truthy(requirer_args[last'.unit])
                            /\ validate_urls(requirer_args[last'.unit]))
                         => BagGet(data'[TheRelation]["requirer"], "urls")
                               = json_dumps(requirer_args[last'.unit]) ]_vars

\* a requirer leader holding urls has handled leader_elected with no relation yet
C26_Witness ==
    /\ rev = 3
    /\ last.handler = "set_urls_in_relation_data"
    /\ last.trigger = "leader_elected"
    /\ last.is_leader
    /\ Truthy(requirer_args[last.unit])
    /\ relations = {}

(* C27: in the requirer tester charm running the revision 3 library, the    *)
(* event the charm subscribes to, on.auth_config_available, is an event the *)
(* library declares: the charm is constructed without error and             *)
(* _on_auth_config_available observes that event, so that it runs once the  *)
(* requirer's leader has read a published configuration.                    *)
C27_TesterSubscribesToDeclaredEvent ==
    (call.fn = "AuthRequirerTesterCharm.__init__" /\ call.done)
    => /\ call.raised = ""
       /\ <<"auth_config_available", "_on_auth_config_available">> \in call.result

\* the provider tester charm, which subscribes to on.urls_available, is constructed
C27_ProviderTesterConstructed ==
    (call.fn = "AuthProviderTesterCharm.__init__" /\ call.done)
    => /\ call.raised = ""
       /\ <<"urls_available", "_on_urls_available">> \in call.result

(* C28: the read handlers (relation_changed in both revisions, pebble_ready *)
(* in revision 3) of provider and requirer never modify a databag: both     *)
(* applications' databags of every relation are the same after the handler  *)
(* as before, whoever is leader, whatever the databags hold and whether or  *)
(* not an event is emitted.                                                 *)
C28_ReadHandlersWriteNothing ==
    [][ last'.handler \in ReadHandlers => data' = data ]_vars

\* a leader's read handler has emitted its event over databags that hold values
C28_Witness ==
    /\ last.handler \in ReadHandlers
    /\ last.is_leader
    /\ last.emitted # << >>
    /\ \E r \in relations : \A a \in Apps : DOMAIN data[r][a] # {}

(* C29: a revision 3 AuthRequirer related to the provider tester charm,     *)
(* only the library writing the databags: every urls_available event the    *)
(* provider tester is handed carries a non-empty list equal to the urls the *)
(* requirer was constructed with, so _on_urls_available never defers it.    *)
C29_TesterNeverDefers ==
    (last.app = "provider" /\ last.handler = "get_urls_from_relation_data")
    => \A i \in DOMAIN last.emitted :
          /\ last.emitted[i].kwargs.urls = requirer_args[leader["requirer"]]
          /\ Truthy(last.emitted[i].kwargs.urls)
          /\ ~AuthProviderTesterCharm_on_urls_available(last.emitted[i]).deferred

\* the provider tester has been handed urls_available and has become active
C29_Witness ==
    /\ last.app = "provider" /\ last.handler = "get_urls_from_relation_data"
    /\ Len(last.emitted) = 1
    /\ AuthProviderTesterCharm_on_urls_available(last.emitted[1]).status = "ActiveStatus"

\* the methods a constructor has made observe `event`
C30_Observers(event) == { o[2] : o \in { p \in call.result : p[1] = event } }

(* C30: constructing a revision 3 AuthProvider or AuthRequirer succeeds for *)
(* a charm that declares zero, one or several containers, and the read      *)
(* handler is subscribed to pebble_ready exactly when the charm declares    *)
(* exactly one container; pebble_ready is then handled by the method that   *)
(* handles relation_changed, with the same outcome in the same state.       *)
C30_ConstructedForAnyContainers ==
    (call.fn \in {"AuthProvider.__init__", "AuthRequirer.__init__"} /\ call.done)
    => /\ call.raised = ""
       /\ C30_Observers("pebble_ready") # {} <=> Len(call.args.containers) = 1
       /\ Len(call.args.containers) = 1
             => C30_Observers("pebble_ready") = C30_Observers("relation_changed")

\* where the constructor returns, pebble_ready is observed exactly with one
\* container, and by the method that observes relation_changed
C30_PebbleReadySameHandler ==
    (/\ call.fn \in {"AuthProvider.__init__", "AuthRequirer.__init__"}
     /\ call.done
     /\ call.raised = "")
    => /\ C30_Observers("pebble_ready") # {} <=> Len(call.args.containers) = 1
       /\ Len(call.args.containers) = 1
             => C30_Observers("pebble_ready") = C30_Observers("relation_changed")

====
